---- MODULE Spec2Model ----
(***************************************************************************)
(* The nixplay backend of rclone: the path-pattern table (pattern.go), its *)
(* match function, and the Fs adapter operations (nixplay.go) that route   *)
(* through it to the remote Nixplay client.                                *)
(*                                                                         *)
(* A Go string is modelled as a sequence of one-character strings, so a    *)
(* path is matched, joined, cleaned and sliced character by character.     *)
(***************************************************************************)
EXTENDS Integers, Sequences, FiniteSets, TLC

VARIABLES
    root,       \* Fs.root: the mount root as NewFs left it
    remote,     \* the Nixplay service: a set of containers [kind, name, photos]
    op,         \* "call" while the call is pending, then the operation that ran
    itemPath,   \* the path argument of the call (dir, remote, src.Remote())
    isFileArg,  \* the isFile argument of a direct call of match
    res,        \* the locals (match, prefix, pattern) the last operation got from match
    err,        \* the error the last operation returned
    calls,      \* the remote client methods the last operation invoked, in order
    entries,    \* the names of the directory entries the last List returned
    table,      \* the package variable patterns: the rules with their compiled matchers
    procs,      \* the concurrent calls of match: each call's arguments and locals
    obj,        \* a Photo object: its parent container and the photo it refers to
    fault       \* the client method made to return an error: the n-th invoked, 0 for none

vars == <<root, remote, op, itemPath, isFileArg, res, err, calls, entries,
          table, procs, obj, fault>>

(***************************************************************************)
(* Bounds of the model.                                                    *)
(***************************************************************************)
\* segments in a path handed directly to match
MaxSegs == 3
\* segments in the root string handed to NewFs
MaxRootSegs == 1
\* segments in a path handed to an Fs operation
MaxOpSegs == 2
\* containers the remote service holds
MaxContainers == 1

(***************************************************************************)
(* Strings.                                                                *)
(***************************************************************************)
Sep == "/"
Empty == <<>>
Dot == <<".">>
DotDot == <<".", ".">>
Album == <<"a", "l", "b", "u", "m">>
Playlist == <<"p", "l", "a", "y", "l", "i", "s", "t">>
Newline == "\n"

\* The segments paths are built from: the two kind names, an ordinary name,
\* the special segments of path.Clean, the empty segment (a doubled, leading
\* or trailing separator) and a name holding a newline.
Segs == {Album, Playlist, <<"x">>, Dot, DotDot, Empty, <<Newline>>}

RECURSIVE JoinSegs(_)
\* strings.Join(segs, "/")
JoinSegs(segs) ==
    IF Len(segs) = 0 THEN Empty
    ELSE IF Len(segs) = 1 THEN segs[1]
    ELSE segs[1] \o <<Sep>> \o JoinSegs(Tail(segs))

\* every string of 1..n segments of segs joined by separators
PathsOver(segs, n) == UNION {{JoinSegs(s) : s \in [1..k -> segs]} : k \in 1..n}

HasSep(s) == \E i \in 1..Len(s) : s[i] = Sep

RECURSIVE Segments(_)
\* the segments of s between its separators
Segments(s) ==
    IF ~HasSep(s) THEN <<s>>
    ELSE LET i == CHOOSE k \in 1..Len(s) : s[k] = Sep /\ \A j \in 1..(k-1) : s[j] # Sep
         IN  <<SubSeq(s, 1, i-1)>> \o Segments(SubSeq(s, i+1, Len(s)))

RECURSIVE TrimLeft(_)
TrimLeft(s) == IF s # Empty /\ s[1] = Sep THEN TrimLeft(Tail(s)) ELSE s

RECURSIVE TrimRight(_)
\* strings.TrimRight(s, "/")
TrimRight(s) ==
    IF s # Empty /\ s[Len(s)] = Sep THEN TrimRight(SubSeq(s, 1, Len(s)-1)) ELSE s

\* strings.Trim(s, "/")
Trim(s) == TrimRight(TrimLeft(s))

RECURSIVE CleanStep(_, _, _)
\* path.Clean's loop over the elements of the path: empty and "." elements
\* are dropped, ".." removes the element before it when there is one that
\* is not itself "..", is dropped at the top of a rooted path and is kept
\* otherwise.
CleanStep(segs, out, rooted) ==
    IF segs = <<>> THEN out
    ELSE LET h == Head(segs)
             t == Tail(segs)
         IN  IF h = Empty \/ h = Dot THEN CleanStep(t, out, rooted)
             ELSE IF h = DotDot
                  THEN IF out # <<>> /\ out[Len(out)] # DotDot
                       THEN CleanStep(t, SubSeq(out, 1, Len(out)-1), rooted)
                       ELSE IF rooted THEN CleanStep(t, out, rooted)
                            ELSE CleanStep(t, Append(out, DotDot), rooted)
                  ELSE CleanStep(t, Append(out, h), rooted)

\* the result of path.Clean from its cleaned elements joined as j: a rooted
\* path keeps its leading separator, an empty result is "."
CleanResult(rooted, j) ==
    IF rooted THEN <<Sep>> \o j
    ELSE IF j = Empty THEN Dot ELSE j

\* path.Clean
Clean(s) ==
    IF s = Empty THEN Dot
    ELSE CleanResult(s[1] = Sep, JoinSegs(CleanStep(Segments(s), <<>>, s[1] = Sep)))

\* path.Join(a, b): the empty elements are ignored, the rest joined by a
\* separator and cleaned; "" when every element is empty.
PathJoin(a, b) ==
    IF a = Empty /\ b = Empty THEN Empty
    ELSE IF a = Empty THEN Clean(b)
    ELSE IF b = Empty THEN Clean(a)
    ELSE Clean(a \o <<Sep>> \o b)

IsPrefixOf(p, s) == Len(p) <= Len(s) /\ SubSeq(s, 1, Len(p)) = p

(***************************************************************************)
(* The pattern table.                                                      *)
(***************************************************************************)
\* A rule's regular expression is one of three shapes over the literal lit:
\*   groups = 0   ^lit$
\*   groups = 1   ^lit/(.+)$
\*   groups = 2   ^lit/(.+?)/([^/]+)$
\* toEntries names the listing callback of the rule ("none" when it has none).
patterns == <<
    [lit |-> Empty,    groups |-> 0, canUpload |-> FALSE, canMkdir |-> FALSE, isFile |-> FALSE, toEntries |-> "kinds"],
    [lit |-> Album,    groups |-> 0, canUpload |-> FALSE, canMkdir |-> FALSE, isFile |-> FALSE, toEntries |-> "listContainers"],
    [lit |-> Album,    groups |-> 1, canUpload |-> FALSE, canMkdir |-> TRUE,  isFile |-> FALSE, toEntries |-> "listPhotos"],
    [lit |-> Album,    groups |-> 2, canUpload |-> TRUE,  canMkdir |-> FALSE, isFile |-> TRUE,  toEntries |-> "none"],
    [lit |-> Playlist, groups |-> 0, canUpload |-> FALSE, canMkdir |-> FALSE, isFile |-> FALSE, toEntries |-> "listContainers"],
    [lit |-> Playlist, groups |-> 1, canUpload |-> FALSE, canMkdir |-> TRUE,  isFile |-> FALSE, toEntries |-> "listPhotos"],
    [lit |-> Playlist, groups |-> 2, canUpload |-> TRUE,  canMkdir |-> FALSE, isFile |-> TRUE,  toEntries |-> "none"] >>

\* the nil *dirPattern
NilPattern == 0

\* dirPatterns.mustCompile: the table with the matcher of every rule compiled
mustCompile(ds) == [i \in 1..Len(ds) |-> [rule |-> ds[i], compiled |-> TRUE]]

\* "." of a regular expression without the s flag: any character but newline
DotAll(s) == \A i \in 1..Len(s) : s[i] # Newline

\* [^/]+ : one or more characters none of which is a separator
NoSepPlus(s) == s # Empty /\ ~HasSep(s)

\* the string after the first n characters of s
After(s, n) == SubSeq(s, n + 1, Len(s))

\* MatchLiteral with the closing anchor forgotten: ^lit
MatchLiteralUnanchored(lit, s) == IF IsPrefixOf(lit, s) THEN <<lit>> ELSE <<>>

\* ^lit$ on s
MatchLiteral(lit, s) == IF s = lit THEN <<s>> ELSE <<>>

\* MatchOneGroup with a group that stops at a separator: ^lit/([^/]+)$
MatchOneGroupNoSlash(lit, s) ==
    IF /\ IsPrefixOf(lit \o <<Sep>>, s)
       /\ NoSepPlus(After(s, Len(lit) + 1))
       /\ DotAll(After(s, Len(lit) + 1))
    THEN <<s, After(s, Len(lit) + 1)>>
    ELSE <<>>

\* ^lit/(.+)$ on s: the group takes the rest of the string
MatchOneGroup(lit, s) ==
    IF /\ IsPrefixOf(lit \o <<Sep>>, s)
       /\ After(s, Len(lit) + 1) # Empty
       /\ DotAll(After(s, Len(lit) + 1))
    THEN <<s, After(s, Len(lit) + 1)>>
    ELSE <<>>

\* Cuts with a second group that may hold separators: (.+?) "/" (.+)
CutsAnyTail(rest) ==
    {i \in 2..(Len(rest) - 1) :
        /\ rest[i] = Sep
        /\ DotAll(SubSeq(rest, 1, i - 1))
        /\ DotAll(After(rest, i))}

\* where rest can be cut into (.+?) "/" ([^/]+): the positions of a separator
\* with a newline-free non-empty string before it and a separator-free
\* non-empty string after it
Cuts(rest) ==
    {i \in 2..(Len(rest) - 1) :
        /\ rest[i] = Sep
        /\ DotAll(SubSeq(rest, 1, i - 1))
        /\ NoSepPlus(After(rest, i))}

\* the two groups of rest cut at the first position of cuts: the lazy (.+?)
\* takes the shortest first group
LazyCut(s, rest, cuts) ==
    IF cuts = {} THEN <<>>
    ELSE <<s, SubSeq(rest, 1, (CHOOSE c \in cuts : \A d \in cuts : c <= d) - 1),
              After(rest, CHOOSE c \in cuts : \A d \in cuts : c <= d)>>

\* ^lit/(.+?)/([^/]+)$ on s
MatchTwoGroups(lit, s) ==
    IF IsPrefixOf(lit \o <<Sep>>, s)
    THEN LazyCut(s, After(s, Len(lit) + 1), Cuts(After(s, Len(lit) + 1)))
    ELSE <<>>

\* regexp.FindStringSubmatch of rule p on s: the whole match followed by the
\* capture groups, or the empty sequence (nil) when s does not match.
FindStringSubmatch(p, s) ==
    IF p.groups = 0 THEN MatchLiteral(p.lit, s)
    ELSE IF p.groups = 1 THEN MatchOneGroup(p.lit, s)
    ELSE MatchTwoGroups(p.lit, s)

RECURSIVE MatchFromAnyStyle(_, _, _)
\* MatchFrom with the test of the style flag forgotten
MatchFromAnyStyle(i, absPath, isFile) ==
    IF i > Len(patterns) THEN NilPattern
    ELSE IF FindStringSubmatch(patterns[i], absPath) # <<>> THEN i
    ELSE MatchFromAnyStyle(i + 1, absPath, isFile)

RECURSIVE MatchFrom(_, _, _)
\* the loop of match from rule i on: the index of the first rule of the
\* requested style whose pattern matches, or NilPattern
MatchFrom(i, absPath, isFile) ==
    IF i > Len(patterns) THEN NilPattern
    ELSE IF patterns[i].isFile # isFile THEN MatchFrom(i + 1, absPath, isFile)
    ELSE IF FindStringSubmatch(patterns[i], absPath) # <<>> THEN i
    ELSE MatchFrom(i + 1, absPath, isFile)

\* what match returns when no rule matches
NoMatch == [match |-> <<>>, prefix |-> Empty, pattern |-> NilPattern, panic |-> FALSE]

\* a run-time panic of match (slice bounds out of range)
Panicked == [match |-> <<>>, prefix |-> Empty, pattern |-> NilPattern, panic |-> TRUE]

\* Prefix with the closing separator forgotten
PrefixNoSep(rt, absPath) == Trim(SubSeq(absPath, Len(rt) + 1, Len(absPath)))

\* prefix = strings.Trim(absPath[len(root):], "/"), with "/" added when
\* it is not empty
Prefix(rt, absPath) ==
    IF Trim(SubSeq(absPath, Len(rt) + 1, Len(absPath))) # Empty
    THEN Trim(SubSeq(absPath, Len(rt) + 1, Len(absPath))) \o <<Sep>>
    ELSE Empty

\* what match returns once its loop ended at rule i
MatchResult(i, absPath, prefix) ==
    IF i = NilPattern THEN NoMatch
    ELSE [match |-> FindStringSubmatch(patterns[i], absPath),
          prefix |-> prefix, pattern |-> i, panic |-> FALSE]

\* match from the joined absolute path on: the slice absPath[len(root):]
\* panics when absPath is shorter than root
MatchAbs(rt, absPath, isFile) ==
    IF Len(rt) > Len(absPath) THEN Panicked
    ELSE MatchResult(MatchFrom(1, absPath, isFile), absPath, Prefix(rt, absPath))

\* dirPatterns.match(root, itemPath, isFile)
match(rt, ip, isFile) == MatchAbs(rt, PathJoin(rt, Trim(ip)), isFile)

(***************************************************************************)
(* NewFs.                                                                  *)
(***************************************************************************)
\* the normalisation of the root string at the head of NewFs
NormalizeRoot(raw) ==
    LET r == Trim(Clean(raw))
    IN  IF r = Dot \/ r = <<Sep>> THEN Empty ELSE r

\* the root strings NewFs is given
RootSegs == {Album, Playlist, <<"x">>, DotDot, Empty}

RawRoots == {Empty} \cup PathsOver(RootSegs, MaxRootSegs)

\* the roots an Fs can have
Roots == {NormalizeRoot(r) : r \in RawRoots}

(***************************************************************************)
(* The remote service behind nixplayClient.                                *)
(***************************************************************************)
Kinds == {"album", "playlist"}

\* string(containerType) as a path element
KindName(k) == IF k = "album" THEN Album ELSE Playlist

\* the container type of rule i: the type its toEntries callback lists,
\* and pattern.containerType for the item rules
containerType(i) == IF patterns[i].lit = Album THEN "album" ELSE "playlist"

\* the names a container of the service may carry: an ordinary name, and a
\* name another client of the service gave that ends in a separator
ContainerNames == {<<"x">>, <<"x", Sep>>}

\* the unique names a photo may carry
PhotoNames == {<<"x">>}

\* the containers the service may hold, each holding at most one photo
ContainerUniverse ==
    [kind : Kinds, name : ContainerNames, photos : {{}} \cup {{n} : n \in PhotoNames}]

RECURSIVE RemotesUpTo(_)
\* the contents of at most n containers, no two of one kind with the same
\* unique name
RemotesUpTo(n) ==
    IF n = 0 THEN {{}}
    ELSE LET prev == RemotesUpTo(n - 1)
         IN  prev \cup
             {r \cup {c} : <<r, c>> \in
                 {x \in prev \X ContainerUniverse :
                     \A d \in x[1] : d.kind # x[2].kind \/ d.name # x[2].name}}

\* the contents the service can have
Remotes == RemotesUpTo(MaxContainers)

\* the nil Container
NilContainer == [kind |-> "nil", name |-> Empty, photos |-> {}]

\* the nil Photo, and the Photo object of a call that has none
NilPhoto == [id |-> 0, name |-> Empty]
NoObject == [parent |-> NilContainer, photo |-> NilPhoto]

\* Client.ContainerWithUniqueName: the container, or nil when there is none
ContainerWithUniqueName(rem, k, n) ==
    IF \E c \in rem : c.kind = k /\ c.name = n
    THEN CHOOSE c \in rem : c.kind = k /\ c.name = n
    ELSE NilContainer

\* Client.Containers
Containers(rem, k) == {c \in rem : c.kind = k}

(***************************************************************************)
(* The Fs operations.  Each yields the record of what the call did: the    *)
(* locals it got from match, the error returned, the client methods        *)
(* invoked, the entries returned and the service's contents afterwards.    *)
(* failAt = n > 0 makes the n-th client method the call invokes return an  *)
(* error; "panic" is a run-time panic of the call.                         *)
(***************************************************************************)
FailPoints == {0, 1, 2}

Outcome(m, e, cs, es, rem) ==
    [res |-> m, err |-> e, calls |-> cs, entries |-> es, remote |-> rem]

\* Photo.Remote of photo n in container c
PhotoRemote(c, n) == PathJoin(PathJoin(KindName(c.kind), c.name), n)

\* the entry of photo n of container c
PhotoEntry(c, n) ==
    [name |-> PhotoRemote(c, n), of |-> "photo", kind |-> c.kind, container |-> c.name]

\* Fs.listContainers
listContainers(rem, prefix, k, failAt, m) ==
    IF failAt = 1 THEN Outcome(m, "remote", <<"Containers">>, {}, rem)
    ELSE IF Containers(rem, k) = {} THEN Outcome(m, "nil", <<"Containers">>, {}, rem)
    ELSE IF failAt = 2 THEN Outcome(m, "remote", <<"Containers", "Name">>, {}, rem)
    ELSE Outcome(m, "nil", <<"Containers", "Name", "PhotoCount">>,
                 {[name |-> prefix \o c.name, of |-> "container", kind |-> k,
                   container |-> c.name] : c \in Containers(rem, k)},
                 rem)

\* Fs.listPhotos once ContainerWithUniqueName returned c
listPhotosIn(rem, c, failAt, m) ==
    IF failAt = 1 THEN Outcome(m, "remote", <<"ContainerWithUniqueName">>, {}, rem)
    ELSE IF c = NilContainer
    THEN Outcome(m, "noContainer", <<"ContainerWithUniqueName">>, {}, rem)
    ELSE IF failAt = 2
    THEN Outcome(m, "remote", <<"ContainerWithUniqueName", "Photos">>, {}, rem)
    ELSE Outcome(m, "nil", <<"ContainerWithUniqueName", "Photos">>,
                 {PhotoEntry(c, n) : n \in c.photos}, rem)

\* Fs.listPhotos
listPhotos(rem, prefix, k, dir, failAt, m) ==
    listPhotosIn(rem, ContainerWithUniqueName(rem, k, dir), failAt, m)

\* the entries of the root rule
KindEntries(prefix) ==
    {[name |-> prefix \o Album, of |-> "kind", kind |-> "album", container |-> Empty],
     [name |-> prefix \o Playlist, of |-> "kind", kind |-> "playlist", container |-> Empty]}

\* the toEntries callback of rule i
toEntries(i, rem, prefix, m, failAt) ==
    IF patterns[i].toEntries = "kinds"
    THEN Outcome(m, "nil", <<>>, KindEntries(prefix), rem)
    ELSE IF patterns[i].toEntries = "listContainers"
    THEN listContainers(rem, prefix, containerType(i), failAt, m)
    ELSE listPhotos(rem, prefix, containerType(i), m.match[2], failAt, m)

\* ListWith taking a path no rule matches for the root directory
ListWithNilAsRoot(m, rem, failAt) ==
    IF m.panic THEN Outcome(m, "panic", <<>>, {}, rem)
    ELSE IF m.pattern = NilPattern
    THEN Outcome(m, "nil", <<>>, KindEntries(m.prefix), rem)
    ELSE IF patterns[m.pattern].isFile
    THEN Outcome(m, "ErrorDirNotFound", <<>>, {}, rem)
    ELSE IF patterns[m.pattern].toEntries # "none"
    THEN toEntries(m.pattern, rem, m.prefix, m, failAt)
    ELSE Outcome(m, "ErrorDirNotFound", <<>>, {}, rem)

\* Fs.List once match returned m
ListWith(m, rem, failAt) ==
    IF m.panic THEN Outcome(m, "panic", <<>>, {}, rem)
    ELSE IF m.pattern = NilPattern \/ patterns[m.pattern].isFile
    THEN Outcome(m, "ErrorDirNotFound", <<>>, {}, rem)
    ELSE IF patterns[m.pattern].toEntries # "none"
    THEN toEntries(m.pattern, rem, m.prefix, m, failAt)
    ELSE Outcome(m, "ErrorDirNotFound", <<>>, {}, rem)

\* Fs.List
ListOutcome(rt, rem, dir, failAt) == ListWith(match(rt, dir, FALSE), rem, failAt)

\* Fs.NewObject once ContainerWithUniqueName returned c
NewObjectIn(m, c, rem, failAt) ==
    IF failAt = 1 THEN Outcome(m, "remote", <<"ContainerWithUniqueName">>, {}, rem)
    ELSE IF c = NilContainer
    THEN Outcome(m, "ErrorObjectNotFound", <<"ContainerWithUniqueName">>, {}, rem)
    ELSE IF failAt = 2
    THEN Outcome(m, "remote", <<"ContainerWithUniqueName", "PhotoWithUniqueName">>, {}, rem)
    ELSE IF m.match[3] \notin c.photos
    THEN Outcome(m, "ErrorObjectNotFound",
                 <<"ContainerWithUniqueName", "PhotoWithUniqueName">>, {}, rem)
    ELSE Outcome(m, "nil", <<"ContainerWithUniqueName", "PhotoWithUniqueName">>,
                 {PhotoEntry(c, m.match[3])}, rem)

\* Fs.NewObject once match returned m
NewObjectWith(m, rem, failAt) ==
    IF m.panic THEN Outcome(m, "panic", <<>>, {}, rem)
    ELSE IF m.pattern = NilPattern
    THEN Outcome(m, "ErrorObjectNotFound", <<>>, {}, rem)
    ELSE NewObjectIn(m, ContainerWithUniqueName(rem, containerType(m.pattern), m.match[2]),
                     rem, failAt)

\* Fs.NewObject
NewObjectOutcome(rt, rem, remotePath, failAt) ==
    NewObjectWith(match(rt, remotePath, TRUE), rem, failAt)

\* Container.AddPhoto of name n to container c
AddPhoto(rem, c, n) == (rem \ {c}) \cup {[c EXCEPT !.photos = {n}]}

\* Fs.Put once ContainerWithUniqueName returned c; c.AddPhoto on the nil
\* Container panics
PutIn(m, c, rem, failAt) ==
    IF failAt = 1 THEN Outcome(m, "remote", <<"ContainerWithUniqueName">>, {}, rem)
    ELSE IF c = NilContainer
    THEN Outcome(m, "panic", <<"ContainerWithUniqueName">>, {}, rem)
    ELSE IF failAt = 2
    THEN Outcome(m, "remote", <<"ContainerWithUniqueName", "AddPhoto">>, {}, rem)
    ELSE Outcome(m, "nil", <<"ContainerWithUniqueName", "AddPhoto">>,
                 {PhotoEntry(c, m.match[3])}, AddPhoto(rem, c, m.match[3]))

\* PutWith with the test for the nil pattern forgotten: pattern.isFile on
\* the nil pattern panics
PutWithNoNilCheck(m, rem, failAt) ==
    IF m.panic \/ m.pattern = NilPattern THEN Outcome(m, "panic", <<>>, {}, rem)
    ELSE IF ~patterns[m.pattern].isFile \/ ~patterns[m.pattern].canUpload
    THEN Outcome(m, "errCantUpload", <<>>, {}, rem)
    ELSE PutIn(m, ContainerWithUniqueName(rem, containerType(m.pattern), m.match[2]),
               rem, failAt)

\* Fs.Put once match returned m
PutWith(m, rem, failAt) ==
    IF m.panic THEN Outcome(m, "panic", <<>>, {}, rem)
    ELSE IF m.pattern = NilPattern \/ ~patterns[m.pattern].isFile
            \/ ~patterns[m.pattern].canUpload
    THEN Outcome(m, "errCantUpload", <<>>, {}, rem)
    ELSE PutIn(m, ContainerWithUniqueName(rem, containerType(m.pattern), m.match[2]),
               rem, failAt)

\* Fs.Put
PutOutcome(rt, rem, remotePath, failAt) ==
    PutWith(match(rt, remotePath, TRUE), rem, failAt)

\* Client.CreateContainer of a container named n of kind k
CreateContainer(rem, k, n) == rem \cup {[kind |-> k, name |-> n, photos |-> {}]}

\* Fs.Mkdir once match returned m
MkdirWith(m, rem, failAt) ==
    IF m.panic THEN Outcome(m, "panic", <<>>, {}, rem)
    ELSE IF m.pattern = NilPattern
    THEN Outcome(m, "ErrorDirNotFound", <<>>, {}, rem)
    ELSE IF ~patterns[m.pattern].canMkdir
    THEN Outcome(m, "errCantMkdir", <<>>, {}, rem)
    ELSE IF failAt # 0
    THEN Outcome(m, "remote", <<"CreateContainer">>, {}, rem)
    ELSE Outcome(m, "nil", <<"CreateContainer">>, {},
                 CreateContainer(rem, containerType(m.pattern), m.match[2]))

\* Fs.Mkdir
MkdirOutcome(rt, rem, dir, failAt) == MkdirWith(match(rt, dir, FALSE), rem, failAt)

\* Container.Delete
DeleteContainer(rem, c) == rem \ {c}

\* Fs.Rmdir once ContainerWithUniqueName returned c
RmdirIn(m, c, rem, failAt) ==
    IF failAt = 1 THEN Outcome(m, "remote", <<"ContainerWithUniqueName">>, {}, rem)
    ELSE IF c = NilContainer
    THEN Outcome(m, "ErrorDirNotFound", <<"ContainerWithUniqueName">>, {}, rem)
    ELSE IF failAt = 2
    THEN Outcome(m, "remote", <<"ContainerWithUniqueName", "Delete">>, {}, rem)
    ELSE Outcome(m, "nil", <<"ContainerWithUniqueName", "Delete">>, {},
                 DeleteContainer(rem, c))

\* Fs.Rmdir once match returned m
RmdirWith(m, rem, failAt) ==
    IF m.panic THEN Outcome(m, "panic", <<>>, {}, rem)
    ELSE IF m.pattern = NilPattern
    THEN Outcome(m, "ErrorDirNotFound", <<>>, {}, rem)
    ELSE IF ~patterns[m.pattern].canMkdir
    THEN Outcome(m, "errCantRmdir", <<>>, {}, rem)
    ELSE RmdirIn(m, ContainerWithUniqueName(rem, containerType(m.pattern), m.match[2]),
                 rem, failAt)

\* Fs.Rmdir
RmdirOutcome(rt, rem, dir, failAt) == RmdirWith(match(rt, dir, FALSE), rem, failAt)

(***************************************************************************)
(* Direct calls of match on a constructed Fs's root.                       *)
(***************************************************************************)
MatchPaths == {Empty} \cup PathsOver(Segs, MaxSegs)

InitMatch ==
    /\ root \in Roots
    /\ remote = {}
    /\ op = "call"
    /\ itemPath \in MatchPaths
    /\ isFileArg \in BOOLEAN
    /\ res = NoMatch
    /\ err = "nil"
    /\ calls = <<>>
    /\ entries = {}
    /\ table = mustCompile(patterns)
    /\ procs = <<>>
    /\ obj = NoObject
    /\ fault = 0

\* patterns.match(f.root, itemPath, isFile), called once on the drawn inputs
Match ==
    /\ op = "call"
    /\ res' = match(root, itemPath, isFileArg)
    /\ op' = "match"
    /\ UNCHANGED <<root, remote, itemPath, isFileArg, err, calls, entries>>
    /\ UNCHANGED <<table, procs, obj, fault>>

NextMatch == Match

SpecMatch == InitMatch /\ [][NextMatch]_vars

(***************************************************************************)
(* Properties of match, checked under SpecMatch.                           *)
(***************************************************************************)
\* the absolute path match joins from the call's root and path
AbsPath == PathJoin(root, Trim(itemPath))

\* the rules of style f whose pattern matches s
Matching(s, f) ==
    {i \in 1..Len(patterns) :
        patterns[i].isFile = f /\ FindStringSubmatch(patterns[i], s) # <<>>}

\* the rule ^lit$, the rule ^lit/(.+)$ and the rule ^lit/(.+?)/([^/]+)$
KindRuleOf(lit) == CHOOSE i \in 1..Len(patterns) : patterns[i].lit = lit /\ patterns[i].groups = 0
CollectionRuleOf(lit) == CHOOSE i \in 1..Len(patterns) : patterns[i].lit = lit /\ patterns[i].groups = 1
ItemRuleOf(lit) == CHOOSE i \in 1..Len(patterns) : patterns[i].lit = lit /\ patterns[i].groups = 2

\* a segment that path.Clean leaves alone
CleanName(n) == n \notin {Empty, Dot, DotDot}

\* C1: whenever match returns a rule, it is the first rule in declaration
\* order among those of the requested style whose pattern matches the joined
\* absolute path, with that pattern's captures; a rule of the other style is
\* never returned; and when match returns no rule, no rule of the requested
\* style matches the path.
FirstMatchWins ==
    op = "match" =>
        /\ res.pattern # NilPattern =>
              /\ patterns[res.pattern].isFile = isFileArg
              /\ res.pattern \in Matching(AbsPath, isFileArg)
              /\ \A j \in Matching(AbsPath, isFileArg) : res.pattern <= j
              /\ res.match = FindStringSubmatch(patterns[res.pattern], AbsPath)
        /\ (res.pattern = NilPattern /\ ~res.panic) => Matching(AbsPath, isFileArg) = {}

\* C1 witness: a file-style call returned an item rule although an earlier
\* rule of the other style matches the same path
FirstMatchWinsWitness ==
    /\ op = "match"
    /\ isFileArg
    /\ res.pattern # NilPattern
    /\ \E j \in Matching(AbsPath, FALSE) : j < res.pattern

MutuallyExclusive ==
    /\ \A f \in BOOLEAN :
          /\ Cardinality(Matching(AbsPath, f)) <= 1
          /\ Cardinality(Matching(itemPath, f)) <= 1
    /\ (op = "match" /\ res.pattern # NilPattern)
          => Matching(AbsPath, isFileArg) = {res.pattern}

\* C3 witness: a path that one rule of each style matches
MutuallyExclusiveWitness ==
    /\ op = "match"
    /\ res.pattern # NilPattern
    /\ Cardinality(Matching(AbsPath, TRUE)) = 1
    /\ Cardinality(Matching(AbsPath, FALSE)) = 1

\* the path is K/<name>/<item>: three segments, the first a kind, the others
\* not empty
IsItemPath(p) ==
    /\ Len(Segments(p)) = 3
    /\ Segments(p)[1] \in {Album, Playlist}
    /\ Segments(p)[2] # Empty
    /\ Segments(p)[3] # Empty

\* the file-style call on K/<name>/<item> returned the K item rule with the
\* captures name and item
ItemMatched ==
    /\ res.pattern = ItemRuleOf(Segments(itemPath)[1])
    /\ res.match[2] = Segments(itemPath)[2]
    /\ res.match[3] = Segments(itemPath)[3]
    /\ patterns[res.pattern].isFile
    /\ patterns[res.pattern].canUpload
    /\ ~HasSep(res.match[3])

\* C4 as stated: with root "", a file-style match of every K/<name>/<item>
\* returns the K item rule with captures name and item, a file rule that
\* can upload.
ItemPathMatches ==
    (op = "match" /\ root = Empty /\ isFileArg /\ IsItemPath(itemPath)) => ItemMatched

\* C4 amended: the same for every name and item that are neither "." nor
\* ".." and a name that holds no newline; and the second capture of any
\* file-style match holds no separator.
ItemPathMatchesClean ==
    /\ (op = "match" /\ root = Empty /\ isFileArg /\ IsItemPath(itemPath)
            /\ CleanName(Segments(itemPath)[2]) /\ CleanName(Segments(itemPath)[3])
            /\ DotAll(Segments(itemPath)[2]))
          => ItemMatched
    /\ (op = "match" /\ isFileArg /\ res.pattern # NilPattern) => ~HasSep(res.match[3])

\* C4 witness: a playlist item path matched from the root ""
ItemPathMatchesWitness ==
    /\ op = "match"
    /\ root = Empty
    /\ isFileArg
    /\ IsItemPath(itemPath)
    /\ res.pattern = ItemRuleOf(Playlist)
    /\ res.match[3] = <<Newline>>

\* the path the caller means: the call's path below the call's root
FullPath ==
    IF root = Empty THEN itemPath
    ELSE IF itemPath = Empty THEN root
    ELSE root \o <<Sep>> \o itemPath

\* the path is K/<name>: two segments, the first a kind, the second not empty
IsCollectionPath(p) ==
    /\ Len(Segments(p)) = 2
    /\ Segments(p)[1] \in {Album, Playlist}
    /\ Segments(p)[2] # Empty

\* the call on K/<name> returned the K collection rule under directory style
\* and no rule under file style
CollectionMatched ==
    IF isFileArg THEN res = NoMatch
    ELSE /\ res.pattern = CollectionRuleOf(Segments(FullPath)[1])
         /\ res.match[2] = Segments(FullPath)[2]
         /\ patterns[res.pattern].canMkdir
         /\ ~patterns[res.pattern].canUpload
         /\ ~patterns[res.pattern].isFile

\* C5 as stated: every K/<name> with a single-segment name matches the K
\* collection rule under directory style and no rule under file style.
CollectionPathMatches ==
    (op = "match" /\ IsCollectionPath(FullPath)) => CollectionMatched

\* C5 amended: the same for every name that is neither "." nor ".." and
\* holds no newline.
CollectionPathMatchesClean ==
    (op = "match" /\ IsCollectionPath(FullPath)
        /\ CleanName(Segments(FullPath)[2]) /\ DotAll(Segments(FullPath)[2]))
      => CollectionMatched

\* C5 witness: the collection "x" matched below the root "album"
CollectionPathMatchesWitness ==
    /\ op = "match"
    /\ root = Album
    /\ itemPath = <<"x">>
    /\ ~isFileArg
    /\ res.pattern = CollectionRuleOf(Album)
    /\ res.match[2] = <<"x">>

\* the requested path trimmed of separators, with one separator added when
\* it is not empty
TrimmedWithSep(p) == IF Trim(p) = Empty THEN Empty ELSE Trim(p) \o <<Sep>>

\* match on the call's root and path agrees with match on the root "" and
\* the path root + "/" + path, and a match has the path's own prefix
SameAsUnrooted ==
    /\ res.panic = match(Empty, root \o <<Sep>> \o itemPath, isFileArg).panic
    /\ res.pattern = match(Empty, root \o <<Sep>> \o itemPath, isFileArg).pattern
    /\ res.match = match(Empty, root \o <<Sep>> \o itemPath, isFileArg).match
    /\ res.pattern # NilPattern => res.prefix = TrimmedWithSep(itemPath)

\* the trimmed path holds no empty, "." or ".." segment
CleanRelative(p) ==
    Trim(p) = Empty \/ \A i \in 1..Len(Segments(Trim(p))) : CleanName(Segments(Trim(p))[i])

\* C6 as stated: for every root and path, match(root, path, style) returns the
\* rule and captures of match("", root + "/" + path, style), and on a match
\* the prefix is the trimmed path followed by one separator ("" when empty).
RootRelative == op = "match" => SameAsUnrooted

\* C6 amended: the same for every path whose trimmed form holds no empty,
\* "." or ".." segment (match then does not panic).
RootRelativeClean ==
    (op = "match" /\ CleanRelative(itemPath)) => (~res.panic /\ SameAsUnrooted)

\* C6 witness: root "album", path "x" matched with the prefix "x/"
RootRelativeWitness ==
    /\ op = "match"
    /\ root = Album
    /\ itemPath = <<"x">>
    /\ res.pattern # NilPattern
    /\ res.prefix = <<"x", Sep>>

\* C9: match never faults: for every normalized root and every requested
\* path the slice absPath[len(root):] is in bounds, and match returns a match
\* or no match.
NeverFaults == op = "match" => ~res.panic

(***************************************************************************)
(* One call of an Fs operation on a constructed Fs.                        *)
(***************************************************************************)
\* the segments of the paths handed to the Fs operations (the playlist
\* rules are reached from the root "playlist")
OpSegs == {Album, <<"x">>, DotDot, Empty}

OpPaths == {Empty} \cup PathsOver(OpSegs, MaxOpSegs)

\* the segments of the roots the Fs is mounted at
FsRootSegs == {Album, Playlist, <<"x">>}

\* the roots of the Fs the operations are called on
FsRoots == {NormalizeRoot(r) : r \in {Empty} \cup PathsOver(FsRootSegs, MaxRootSegs)}

Init ==
    /\ root \in FsRoots
    /\ remote \in Remotes
    /\ op = "call"
    /\ itemPath \in OpPaths
    /\ isFileArg = FALSE
    /\ res = NoMatch
    /\ err = "nil"
    /\ calls = <<>>
    /\ entries = {}
    /\ table = mustCompile(patterns)
    /\ procs = <<>>
    /\ obj = NoObject
    /\ fault = 0

\* the call returns (or panics) with outcome o
Return(name, o) ==
    /\ op' = name
    /\ res' = o.res
    /\ err' = o.err
    /\ calls' = o.calls
    /\ entries' = o.entries
    /\ remote' = o.remote
    /\ UNCHANGED <<root, itemPath, isFileArg>>
    /\ UNCHANGED <<table, procs, obj, fault>>

List ==
    /\ op = "call"
    /\ \E failAt \in FailPoints :
           Return("List", ListOutcome(root, remote, itemPath, failAt))

NewObject ==
    /\ op = "call"
    /\ \E failAt \in FailPoints :
           Return("NewObject", NewObjectOutcome(root, remote, itemPath, failAt))

Put ==
    /\ op = "call"
    /\ \E failAt \in FailPoints :
           Return("Put", PutOutcome(root, remote, itemPath, failAt))

\* a created container stays within the bound on the service's contents
MkdirReturn(o) ==
    /\ Cardinality(o.remote) <= MaxContainers
    /\ Return("Mkdir", o)

Mkdir ==
    /\ op = "call"
    /\ \E failAt \in FailPoints : MkdirReturn(MkdirOutcome(root, remote, itemPath, failAt))

Rmdir ==
    /\ op = "call"
    /\ \E failAt \in FailPoints :
           Return("Rmdir", RmdirOutcome(root, remote, itemPath, failAt))

Next == List \/ NewObject \/ Put \/ Mkdir \/ Rmdir

Spec == Init /\ [][Next]_vars

(***************************************************************************)
(* Properties of the Fs operations, checked under Spec.                    *)
(***************************************************************************)
DirOps == {"List", "Mkdir", "Rmdir"}
FileOps == {"NewObject", "Put"}

\* the operation got no rule from match
GotNoRule == op \in DirOps \cup FileOps /\ res.pattern = NilPattern /\ ~res.panic

\* C7 as stated: on no match, match returns nil captures, the empty prefix
\* and the nil rule; List, Mkdir and Rmdir return fs.ErrorDirNotFound,
\* NewObject and Put return object not found; nothing is listed.
NoMatchIsNotFound ==
    GotNoRule =>
        /\ res.match = <<>> /\ res.prefix = Empty
        /\ op \in DirOps => err = "ErrorDirNotFound"
        /\ op \in FileOps => err = "ErrorObjectNotFound"
        /\ entries = {} /\ calls = <<>>

\* C7 amended: the same, but Put returns errCantUpload on no match; only
\* NewObject returns fs.ErrorObjectNotFound.
NoMatchIsRejected ==
    GotNoRule =>
        /\ res.match = <<>> /\ res.prefix = Empty
        /\ op \in DirOps => err = "ErrorDirNotFound"
        /\ op = "NewObject" => err = "ErrorObjectNotFound"
        /\ op = "Put" => err = "errCantUpload"
        /\ entries = {} /\ calls = <<>>

\* C7 witness: Put got no rule and returned errCantUpload
NoMatchIsRejectedWitness ==
    /\ op = "Put"
    /\ res = NoMatch
    /\ err = "errCantUpload"
    /\ remote # {}

\* the operation got the root rule or a collection-root rule from match
GotRootRule == res.pattern # NilPattern /\ patterns[res.pattern].groups = 0

\* the operation got no file rule that can upload from match
GotNoUploadRule ==
    /\ ~res.panic
    /\ \/ res.pattern = NilPattern
       \/ ~patterns[res.pattern].isFile
       \/ ~patterns[res.pattern].canUpload

\* what a rejected call returns, having invoked no client method
Rejected ==
    /\ (op = "Mkdir" /\ GotRootRule) => (err = "errCantMkdir" /\ calls = <<>>)
    /\ (op = "Rmdir" /\ GotRootRule) => (err = "errCantRmdir" /\ calls = <<>>)
    /\ (op = "Put" /\ GotNoUploadRule) => (err = "errCantUpload" /\ calls = <<>>)

\* a call that returns one of the fixed errors leaves the service as it was
RejectedKeepsRemote ==
    (op' \in {"Mkdir", "Rmdir", "Put"}
        /\ err' \in {"errCantMkdir", "errCantRmdir", "errCantUpload"})
      => remote' = remote

\* C8: Mkdir and Rmdir on a path the root rule or a collection-root rule
\* matches return errCantMkdir and errCantRmdir, Put on a path no file rule
\* that can upload matches returns errCantUpload; such a call invokes no
\* client method and leaves the service's contents unchanged.
Gating == []Rejected /\ [][RejectedKeepsRemote]_vars

\* C8 witness: Rmdir of a collection root was rejected while the service
\* holds a container
GatingWitness ==
    /\ op = "Rmdir"
    /\ res.pattern = KindRuleOf(Playlist)
    /\ err = "errCantRmdir"
    /\ calls = <<>>
    /\ remote # {}

\* C10: every directory entry List returns resolves again, directory style
\* against the same root, to the rule of its type: an entry of the root rule
\* to the collection-root rule of its kind, an entry of a collection-root
\* rule to the collection rule of its kind with the collection's name as the
\* first capture.
RoundTrip ==
    (op = "List" /\ err = "nil") =>
        \A e \in entries :
            /\ e.of = "kind" =>
                  match(root, e.name, FALSE).pattern = KindRuleOf(KindName(e.kind))
            /\ e.of = "container" =>
                  /\ match(root, e.name, FALSE).pattern
                        = CollectionRuleOf(KindName(e.kind))
                  /\ match(root, e.name, FALSE).match[2] = e.container

\* the photo entry e resolves, file style against the root, to the item rule
\* of its container's kind, its container's name and a photo of the container
ResolvesToPhoto(m, e) ==
    /\ ~m.panic
    /\ m.pattern = ItemRuleOf(KindName(e.kind))
    /\ m.match[2] = e.container
    /\ \E c \in remote : c.kind = e.kind /\ c.name = e.container /\ m.match[3] \in c.photos

\* C14: the Remote() of every Photo that List(dir) or NewObject(remote)
\* returns is relative to the mount root: NewObject(remote).Remote() is
\* remote, and Remote() resolves file style against the same root to the
\* kind, the name and the photo of the Photo's parent container.
RemoteIsRelative ==
    (op \in {"List", "NewObject"} /\ err = "nil") =>
        \A e \in entries :
            e.of = "photo" =>
                /\ op = "NewObject" => e.name = itemPath
                /\ ResolvesToPhoto(match(root, e.name, TRUE), e)

\* ContainerWithUniqueName answered the call with the nil Container and no
\* error, and the call invoked no other method of the client
LookedUpNil ==
    /\ op \in {"List", "NewObject", "Put", "Rmdir"}
    /\ calls = <<"ContainerWithUniqueName">>
    /\ err # "remote"
    /\ ContainerWithUniqueName(remote, containerType(res.pattern), res.match[2])
          = NilContainer

\* C15: when ContainerWithUniqueName reports no container (nil, no error),
\* the operation returns an error and invokes no method on the absent
\* container: NewObject fs.ErrorObjectNotFound, Rmdir fs.ErrorDirNotFound,
\* List an error, Put an error in place of the call of AddPhoto.
NilContainerHandled ==
    LookedUpNil =>
        /\ op = "NewObject" => err = "ErrorObjectNotFound"
        /\ op = "Rmdir" => err = "ErrorDirNotFound"
        /\ op = "List" => err = "noContainer"
        /\ op = "Put" => err \notin {"nil", "panic"}

(***************************************************************************)
(* Concurrent calls of match.  The package variable patterns is built by   *)
(* mustCompile before any call; each call then runs match step by step on  *)
(* its own arguments and locals, reading one rule of the shared table per  *)
(* iteration of the loop.  A call that panics ends the program.            *)
(***************************************************************************)
\* the goroutines calling match
Procs == {1, 2}

\* the arguments of the concurrent calls
ConcRoots == {Empty, Album}
ConcPaths == {Empty, <<"x">>, Album \o <<Sep, "x">>, <<"x", Sep, "x">>, DotDot}

\* a call that has not started
Entered(rt, ip, f) ==
    [pc |-> "entry", root |-> rt, itemPath |-> ip, isFile |-> f,
     absPath |-> Empty, prefix |-> Empty, i |-> 0, res |-> NoMatch]

InitConc ==
    /\ root = Empty
    /\ remote = {}
    /\ op = "call"
    /\ itemPath = Empty
    /\ isFileArg = FALSE
    /\ res = NoMatch
    /\ err = "nil"
    /\ calls = <<>>
    /\ entries = {}
    /\ table = mustCompile(patterns)
    /\ procs \in [Procs -> {Entered(rt, ip, f) :
                              rt \in ConcRoots, ip \in ConcPaths, f \in BOOLEAN}]
    /\ obj = NoObject
    /\ fault = 0

\* no call has panicked
Running == \A p \in Procs : procs[p].pc # "panic"

\* the head of match: the locals absPath and prefix, or the panic of the slice
EnterWith(c, absPath) ==
    IF Len(absPath) < Len(c.root)
    THEN [c EXCEPT !.pc = "panic", !.res = Panicked]
    ELSE [c EXCEPT !.pc = "range", !.absPath = absPath,
                   !.prefix = Prefix(c.root, absPath), !.i = 1]

\* RangeTable of a loop that compiles the matcher of the rule it tests in
\* place: the matcher of rule i is nil until the iteration after
RangeTableRecompiling(t, i) == [j \in 1..Len(t) |-> [t[j] EXCEPT !.compiled = (j # i)]]

\* what one iteration of the loop of match writes to the table: nothing
RangeTable(t, i) == t

\* pattern.match.FindStringSubmatch(absPath) on rule r of the table; the nil
\* matcher of a rule not compiled panics
RangeMatch(c, r, m) ==
    IF ~r.compiled THEN [c EXCEPT !.pc = "panic", !.res = Panicked]
    ELSE IF m # <<>>
    THEN [c EXCEPT !.pc = "return",
                   !.res = [match |-> m, prefix |-> c.prefix, pattern |-> c.i,
                            panic |-> FALSE]]
    ELSE [c EXCEPT !.i = c.i + 1]

\* one iteration of the loop of match over table t
RangeStep(c, t) ==
    IF c.i > Len(t) THEN [c EXCEPT !.pc = "return", !.res = NoMatch]
    ELSE IF t[c.i].rule.isFile # c.isFile THEN [c EXCEPT !.i = c.i + 1]
    ELSE RangeMatch(c, t[c.i], FindStringSubmatch(t[c.i].rule, c.absPath))

\* call p runs the head of match
Enter(p) ==
    /\ Running
    /\ procs[p].pc = "entry"
    /\ procs' = [procs EXCEPT
                    ![p] = EnterWith(procs[p], PathJoin(procs[p].root, Trim(procs[p].itemPath)))]
    /\ UNCHANGED <<root, remote, op, itemPath, isFileArg, res, err, calls, entries>>
    /\ UNCHANGED <<table, obj, fault>>

\* call p runs one iteration of the loop of match
Range(p) ==
    /\ Running
    /\ procs[p].pc = "range"
    /\ procs' = [procs EXCEPT ![p] = RangeStep(procs[p], table)]
    /\ table' = RangeTable(table, procs[p].i)
    /\ UNCHANGED <<root, remote, op, itemPath, isFileArg, res, err, calls, entries>>
    /\ UNCHANGED <<obj, fault>>

NextConc == \E p \in Procs : Enter(p) \/ Range(p)

SpecConc == InitConc /\ [][NextConc]_vars

\* C11: the pattern table is never modified after mustCompile built it, and
\* under every interleaving of concurrent calls of match each call that
\* returns has the result it has when run alone (and a call panics only if
\* it panics alone).
TableImmutable ==
    /\ table = mustCompile(patterns)
    /\ \A p \in DOMAIN procs :
          /\ procs[p].pc = "return" =>
                procs[p].res = match(procs[p].root, procs[p].itemPath, procs[p].isFile)
          /\ procs[p].pc = "panic" =>
                match(procs[p].root, procs[p].itemPath, procs[p].isFile).panic

\* C11 witness: two calls of different styles on the same path, interleaved,
\* have both returned a rule
TableImmutableWitness ==
    /\ DOMAIN procs = Procs
    /\ \A p \in Procs : procs[p].pc = "return" /\ procs[p].res.pattern # NilPattern
    /\ procs[1].itemPath = procs[2].itemPath
    /\ procs[1].isFile /\ ~procs[2].isFile

(***************************************************************************)
(* Photo.Update on a Photo object of the service.  Here a photo is the     *)
(* record [id, name] the service keeps, so that the photo uploaded in      *)
(* place of a deleted one is told from it.                                 *)
(***************************************************************************)
\* the names a photo may carry
UpdateNames == {<<"x">>, <<"y">>}

\* the client methods Update can find failing: Name, Delete, AddPhoto
UpdateFaults == {0, 1, 2, 3}

\* the photos of the container o.parent
ParentPhotos(rem, o) ==
    UNION {c.photos : c \in {d \in rem : d.kind = o.parent.kind /\ d.name = o.parent.name}}

\* an id the service has given to no photo of the container
NewID(rem, o) ==
    CHOOSE n \in 1..(Cardinality(ParentPhotos(rem, o)) + 2) :
        \A ph \in ParentPhotos(rem, o) \cup {o.photo} : ph.id # n

\* Photo.Delete of o.photo
DeletePhoto(rem, o) ==
    {IF c.kind = o.parent.kind /\ c.name = o.parent.name
     THEN [c EXCEPT !.photos = c.photos \ {o.photo}] ELSE c : c \in rem}

\* Container.AddPhoto to o.parent of a photo ph
AddNamedPhoto(rem, o, ph) ==
    {IF c.kind = o.parent.kind /\ c.name = o.parent.name
     THEN [c EXCEPT !.photos = c.photos \cup {ph}] ELSE c : c \in rem}

\* what a call of Update did: the error, the client methods invoked, the
\* object and the service afterwards
Updated(e, cs, o, rem) == [err |-> e, calls |-> cs, obj |-> o, remote |-> rem]

\* Update once the existing photo is deleted: the upload
UpdateAdd(o, rem, ph, failAt) ==
    IF failAt = 3
    THEN Updated("failed to add new photo", <<"Name", "Delete", "AddPhoto">>, o, rem)
    ELSE Updated("nil", <<"Name", "Delete", "AddPhoto">>,
                 [o EXCEPT !.photo = ph], AddNamedPhoto(rem, o, ph))

\* Update uploading the new photo before it deletes the existing one
UpdateAddFirst(o, rem, failAt) ==
    IF failAt = 1
    THEN Updated("failed to get name of existing photo", <<"Name">>, o, rem)
    ELSE IF failAt = 2
    THEN Updated("failed to add new photo", <<"Name", "AddPhoto">>, o, rem)
    ELSE IF failAt = 3
    THEN Updated("failed to delete existing photo", <<"Name", "AddPhoto", "Delete">>,
                 o, AddNamedPhoto(rem, o, [id |-> NewID(rem, o), name |-> o.photo.name]))
    ELSE Updated("nil", <<"Name", "AddPhoto", "Delete">>,
                 [o EXCEPT !.photo = [id |-> NewID(rem, o), name |-> o.photo.name]],
                 DeletePhoto(AddNamedPhoto(rem, o,
                                 [id |-> NewID(rem, o), name |-> o.photo.name]), o))

\* Photo.Update
UpdateOutcome(o, rem, failAt) ==
    IF failAt = 1
    THEN Updated("failed to get name of existing photo", <<"Name">>, o, rem)
    ELSE IF failAt = 2
    THEN Updated("failed to delete existing photo", <<"Name", "Delete">>, o, rem)
    ELSE UpdateAdd(o, DeletePhoto(rem, o),
                   [id |-> NewID(rem, o), name |-> o.photo.name], failAt)

\* a Photo object of a container of the service, which may hold one more
\* photo, of the same name or another
InitUpdate ==
    /\ root = Empty
    /\ op = "call"
    /\ itemPath = Empty
    /\ isFileArg = FALSE
    /\ res = NoMatch
    /\ err = "nil"
    /\ calls = <<>>
    /\ entries = {}
    /\ table = mustCompile(patterns)
    /\ procs = <<>>
    /\ fault \in UpdateFaults
    /\ \E k \in Kinds, n \in ContainerNames, pn \in UpdateNames :
       \E others \in {{}} \cup {{[id |-> 2, name |-> on]} : on \in UpdateNames} :
          /\ obj = [parent |-> [kind |-> k, name |-> n],
                    photo |-> [id |-> 1, name |-> pn]]
          /\ remote = {[kind |-> k, name |-> n,
                        photos |-> {[id |-> 1, name |-> pn]} \cup others]}

\* the call returns with outcome u
UpdateReturn(u) ==
    /\ op' = "Update"
    /\ err' = u.err
    /\ calls' = u.calls
    /\ obj' = u.obj
    /\ remote' = u.remote
    /\ UNCHANGED <<root, itemPath, isFileArg, res, entries, table, procs, fault>>

Update ==
    /\ op = "call"
    /\ UpdateReturn(UpdateOutcome(obj, remote, fault))

NextUpdate == Update

SpecUpdate == InitUpdate /\ [][NextUpdate]_vars

\* the call of Update that has just returned
UpdateOrdered ==
    /\ calls' \in {<<"Name">>, <<"Name", "Delete">>, <<"Name", "Delete", "AddPhoto">>}
    /\ err' = "failed to get name of existing photo" =>
          /\ calls' = <<"Name">>
          /\ obj' = obj /\ remote' = remote
    /\ err' = "failed to delete existing photo" =>
          /\ calls' = <<"Name", "Delete">>
          /\ obj' = obj /\ remote' = remote
    /\ err' = "failed to add new photo" =>
          /\ calls' = <<"Name", "Delete", "AddPhoto">>
          /\ obj' = obj
    /\ err' = "nil" =>
          /\ calls' = <<"Name", "Delete", "AddPhoto">>
          /\ obj'.parent = obj.parent
          /\ obj'.photo # obj.photo
          /\ obj'.photo.name = obj.photo.name
          /\ ParentPhotos(remote', obj) = (ParentPhotos(remote, obj) \ {obj.photo})
                                             \cup {obj'.photo}

\* C12: Update reads the photo's name, then deletes the photo, then adds a
\* photo of that name to the same parent container, in this order; when
\* reading the name or deleting fails no upload is attempted and the object
\* refers to the photo it referred to; the object refers to the new photo
\* only after an upload that succeeded.
UpdateOrder == [][op' = "Update" => UpdateOrdered]_vars

\* C12 witness: an Update that succeeded on a container holding another
\* photo of the same name
UpdateOrderWitness ==
    /\ op = "Update"
    /\ err = "nil"
    /\ calls = <<"Name", "Delete", "AddPhoto">>
    /\ obj.photo \in ParentPhotos(remote, obj)
    /\ \E ph \in ParentPhotos(remote, obj) : ph # obj.photo /\ ph.name = obj.photo.name

\* C13: whenever Update returns an error the photo the object referred to
\* before the call is still in its parent container, and after any Update at
\* most one photo derived from the object (the one it referred to, the one it
\* refers to) is in the container.
NoDataLoss ==
    [][op' = "Update" =>
         /\ err' # "nil" => obj.photo \in ParentPhotos(remote', obj)
         /\ Cardinality(ParentPhotos(remote', obj) \cap {obj.photo, obj'.photo}) <= 1]_vars

(***************************************************************************)
(* NewFs on a root string.  itemPath is the root argument as given, root   *)
(* the root of the Fs that NewFs returns.                                  *)
(***************************************************************************)
\* the index of the last separator of s, 0 when s has none
LastSep(s) ==
    IF HasSep(s) THEN CHOOSE k \in 1..Len(s) : s[k] = Sep /\ \A j \in (k+1)..Len(s) : s[j] # Sep
    ELSE 0

\* path.Split(s): the directory, up to and with the last separator, and the
\* file after it
SplitDir(s) == SubSeq(s, 1, LastSep(s))
SplitFile(s) == SubSeq(s, LastSep(s) + 1, Len(s))

\* what a call of NewFs did: the root of the Fs returned, the error, the
\* locals of the first match, and the calls and the object of f.NewObject
Made(rt, e, m, cs, es) == [root |-> rt, err |-> e, res |-> m, calls |-> cs, entries |-> es]

\* NewFs on a file root that leaves the Fs at the parent whatever
\* f.NewObject(leaf) returned
NewFsFileNoRestore(oldRoot, parent, m, o) ==
    IF o.err = "panic" THEN Made(parent, "panic", m, o.calls, {})
    ELSE IF o.err = "nil" THEN Made(parent, "ErrorIsFile", m, o.calls, o.entries)
    ELSE Made(parent, "nil", m, o.calls, {})

\* NewFs on a root an item rule matches, once f.NewObject(leaf) on the
\* parent root returned o
NewFsFile(oldRoot, parent, m, o) ==
    IF o.err = "panic" THEN Made(parent, "panic", m, o.calls, {})
    ELSE IF o.err = "nil" THEN Made(parent, "ErrorIsFile", m, o.calls, o.entries)
    ELSE Made(oldRoot, "nil", m, o.calls, {})

\* NewFs once the root is normalised to rt and match(rt, "", true) returned m
NewFsWith(rt, m, rem, failAt) ==
    IF m.panic THEN Made(rt, "panic", m, <<>>, {})
    ELSE IF m.pattern # NilPattern /\ patterns[m.pattern].isFile
    THEN NewFsFile(rt, TrimRight(SplitDir(rt)), m,
                   NewObjectOutcome(TrimRight(SplitDir(rt)), rem, SplitFile(rt), failAt))
    ELSE Made(rt, "nil", m, <<>>, {})

\* NewFs
NewFsOutcome(raw, rem, failAt) ==
    NewFsWith(NormalizeRoot(raw), match(NormalizeRoot(raw), Empty, TRUE), rem, failAt)

\* the segments of the root strings handed to NewFs
NewFsSegs == {Album, Playlist, <<"x">>, DotDot, Empty}

NewFsRoots == {Empty} \cup PathsOver(NewFsSegs, MaxSegs)

InitNewFs ==
    /\ root = Empty
    /\ remote \in Remotes
    /\ op = "call"
    /\ itemPath \in NewFsRoots
    /\ isFileArg = TRUE
    /\ res = NoMatch
    /\ err = "nil"
    /\ calls = <<>>
    /\ entries = {}
    /\ table = mustCompile(patterns)
    /\ procs = <<>>
    /\ obj = NoObject
    /\ fault \in FailPoints

\* NewFs returns (or panics) with outcome o
NewFsReturn(o) ==
    /\ op' = "NewFs"
    /\ root' = o.root
    /\ err' = o.err
    /\ res' = o.res
    /\ calls' = o.calls
    /\ entries' = o.entries
    /\ UNCHANGED <<remote, itemPath, isFileArg, table, procs, obj, fault>>

NewFs ==
    /\ op = "call"
    /\ NewFsReturn(NewFsOutcome(itemPath, remote, fault))

NextNewFs == NewFs

SpecNewFs == InitNewFs /\ [][NextNewFs]_vars

\* the root argument as NewFs normalises it
GivenRoot == NormalizeRoot(itemPath)

\* a file-style lookup of the root matches an item rule
IsFileRoot == match(GivenRoot, Empty, TRUE).pattern # NilPattern

\* the root without its last segment and the separator before it
ParentRoot ==
    JoinSegs(SubSeq(Segments(GivenRoot), 1, Len(Segments(GivenRoot)) - 1))

\* the service holds the photo the last segment of the root names, in the
\* container the segments between the kind and the last name
RootPhotoExists ==
    \E c \in remote :
        /\ KindName(c.kind) = Segments(GivenRoot)[1]
        /\ c.name = JoinSegs(SubSeq(Segments(GivenRoot), 2, Len(Segments(GivenRoot)) - 1))
        /\ Segments(GivenRoot)[Len(Segments(GivenRoot))] \in c.photos

====
